---- MODULE Spec2Model ----
(***************************************************************************)
(* Model of gin/tf/utils.py: the per-graph singleton helper                *)
(* singleton_per_graph and the session hook GinConfigSaverHook.            *)
(*                                                                         *)
(* The Gin registry, the TensorFlow file system, the default graph, the    *)
(* global step and the FileWriterCache are the environment of that file;   *)
(* they are state variables here, read and written where the source reads  *)
(* and writes them.  No framework call raises, except a file write into a  *)
(* directory that does not exist.                                          *)
(***************************************************************************)
EXTENDS Integers, Sequences, FiniteSets, TLC

\* ---------------------------------------------------------------- bounds
MaxSingletonCalls == 3      \* calls of singleton_per_graph in one run
MaxHookCalls == 2           \* calls of after_create_session in one run

\* ----------------------------------------------------- values of the model
Scopes == {"", "train"}                 \* config.current_scope_str()
Graphs == {"g1", "g2"}                  \* identities of tf.Graph objects
Constructors == {"ctorA", "ctorB"}      \* zero-argument callables
Threads == {"t1", "t2"}                 \* callers of the hook
StepValues == {0, 5, 100}               \* values of the global step
ConfigTexts == <<"cfg0", "cfg1">>       \* operative configuration texts, in turn
NoSession == "None"
Sessions == {NoSession, "sess"}
NoWriter == 0                           \* None in self._summary_writer
SuppliedWriter == 1                     \* a writer passed to __init__
CachedWriter == 2                       \* a writer the cache held beforehand
Digit == <<"0", "1", "2", "3", "4", "5", "6", "7", "8", "9">>

VARIABLES
  \* singleton_per_graph and its environment
  current_scope,      \* config.current_scope_str()
  default_graph,      \* tf.compat.v1.get_default_graph()
  SINGLETONS,         \* gin's registry: key -> instance
  objects_made,       \* number of constructor invocations so far
  history,            \* per (scope, graph): what the calls made there did
  singleton_calls,    \* number of singleton_per_graph calls so far
  \* GinConfigSaverHook: the fields set by __init__
  output_dir, base_name, summarize_config, summary_writer,
  include_step_in_filename,
  ctor_summary_writer, \* the summary_writer argument of __init__
  \* the environment of the hook
  operative_config,   \* config.operative_config_str()
  has_global_step,    \* tf.compat.v1.train.get_global_step() is not None
  global_step,        \* value session.run(global_step) returns
  dir_exists,         \* tf.io.gfile.isdir(output_dir)
  files,              \* path -> content, for the files that exist
  writer_cache,       \* FileWriterCache: logdir -> writer
  writers_made,       \* number of FileWriter objects the cache created
  cache_gets,         \* number of FileWriterCache.get calls so far
  pending,            \* records added to a writer and not yet flushed
  event_stream,       \* records flushed to the event files
  \* the callers of after_create_session
  threads,            \* the threads that call the hook
  pc,                 \* thread -> position in after_create_session
  local,              \* thread -> local variables of its call
  hook_calls          \* number of after_create_session calls started

singleton_vars ==
  <<current_scope, default_graph, SINGLETONS, objects_made, history,
    singleton_calls>>
hook_fields ==
  <<output_dir, base_name, summarize_config, include_step_in_filename,
    ctor_summary_writer>>
hook_env ==
  <<operative_config, has_global_step, global_step, dir_exists, files,
    writer_cache, writers_made, cache_gets, pending, event_stream>>
hook_vars ==
  <<hook_fields, summary_writer, hook_env, threads, pc, local, hook_calls>>
vars == <<singleton_vars, hook_vars>>

\* ------------------------------------------------------------- strings
\* str(n) for n >= 0, as the sequence of its decimal digits
RECURSIVE IntToStr(_)
IntToStr(n) ==
  IF n < 10 THEN <<Digit[n + 1]>>
  ELSE IntToStr(n \div 10) \o <<Digit[(n % 10) + 1]>>

\* os.path.join(a, b) for a relative b and a non-empty a without a
\* trailing separator
path_join(a, b) == a \o <<"/">> \o b

\* ===================================================== singleton_per_graph
Pairs == Scopes \X Graphs
NoHistory == [calls |-> 0, ctor |-> 0, results |-> {}, keys |-> {}]

\* config.singleton_value(key, constructor): the registry after the call, the
\* value returned and whether the constructor was invoked
singleton_value(key, constructor) ==
  IF key \notin DOMAIN SINGLETONS
  THEN LET instance == <<constructor, objects_made + 1>>
       IN [registry |-> (key :> instance) @@ SINGLETONS,
           value |-> instance, constructed |-> TRUE]
  ELSE [registry |-> SINGLETONS, value |-> SINGLETONS[key],
        constructed |-> FALSE]

\* the key without the graph, as config.singleton itself forms it
singleton_key_scope_only == <<current_scope>>

\* key = (config.current_scope_str(), tf.compat.v1.get_default_graph())
singleton_key == <<current_scope, default_graph>>

\* what a call does once the registry has answered it
singleton_return(r) ==
  /\ SINGLETONS' = r.registry
  /\ objects_made' = objects_made + (IF r.constructed THEN 1 ELSE 0)
  /\ singleton_calls' = singleton_calls + 1
  /\ history' = [history EXCEPT ![<<current_scope, default_graph>>] =
       [calls |-> @.calls + 1,
        ctor |-> @.ctor + (IF r.constructed THEN 1 ELSE 0),
        results |-> @.results \cup {r.value},
        keys |-> @.keys \cup {singleton_key}]]
  /\ UNCHANGED <<current_scope, default_graph, hook_vars>>

\* the helper calling the constructor on every call, past the registry
singleton_per_graph_uncached(constructor) ==
  /\ singleton_calls < MaxSingletonCalls
  /\ LET instance == <<constructor, objects_made + 1>>
     IN singleton_return([registry |-> (singleton_key :> instance) @@ SINGLETONS,
                          value |-> instance, constructed |-> TRUE])

singleton_per_graph(constructor) ==
  /\ singleton_calls < MaxSingletonCalls
  /\ singleton_return(singleton_value(singleton_key, constructor))

\* with config.config_scope(scope): the current scope string changes
config_scope(scope) ==
  /\ scope # current_scope
  /\ current_scope' = scope
  /\ UNCHANGED <<default_graph, SINGLETONS, objects_made, history,
                 singleton_calls, hook_vars>>

\* with graph.as_default(): the default graph changes
as_default(graph) ==
  /\ graph # default_graph
  /\ default_graph' = graph
  /\ UNCHANGED <<current_scope, SINGLETONS, objects_made, history,
                 singleton_calls, hook_vars>>

SingletonInit ==
  /\ current_scope = ""
  /\ default_graph = "g1"
  /\ SINGLETONS = [k \in {} |-> <<>>]
  /\ objects_made = 0
  /\ history = [p \in Pairs |-> NoHistory]
  /\ singleton_calls = 0

\* ====================================================== GinConfigSaverHook
NoSummary == [tag |-> <<>>, payload |-> <<>>]
NoLocal ==
  [session |-> NoSession, config_str |-> "", global_step_val |-> 0,
   filename |-> <<>>, config_path |-> <<>>, summary |-> NoSummary,
   isdir |-> FALSE, writer |-> NoWriter, oplog |-> <<>>, raised |-> FALSE]

AllIdle == \A t \in Threads : pc[t] = "idle"

\* config.markdown(config_str)
markdown(config_str) == <<"markdown", config_str>>

\* '%s-%s.gin' % (self._base_name, global_step_val)
filename_with_step(base, step) == base \o <<"-">> \o IntToStr(step) \o <<".gin">>

\* '%s.gin' % self._base_name
filename_without_step(base) == base \o <<".gin">>

\* tf.compat.v1.summary.FileWriterCache.get(logdir): the writer kept for
\* logdir, created on the first request for that directory
FileWriterCache_get(logdir) ==
  IF logdir \in DOMAIN writer_cache
  THEN [cache |-> writer_cache, writer |-> writer_cache[logdir], made |-> 0]
  ELSE LET writer == CachedWriter + writers_made + 1
       IN [cache |-> (logdir :> writer) @@ writer_cache,
           writer |-> writer, made |-> 1]

\* the thread moves to position p with its locals changed to l
Goto(t, p, l) ==
  /\ pc' = [pc EXCEPT ![t] = p]
  /\ local' = [local EXCEPT ![t] = l]

Log(t, op) == Append(local[t].oplog, op)

\* line 85-87: the call starts and takes the operative configuration text
after_create_session(t, session) ==
  /\ t \in threads
  /\ pc[t] = "idle"
  /\ hook_calls < MaxHookCalls
  /\ hook_calls' = hook_calls + 1
  /\ Goto(t, "isdir", [NoLocal EXCEPT !.session = session,
                                       !.config_str = operative_config])
  /\ UNCHANGED <<singleton_vars, hook_fields, summary_writer, hook_env, threads>>

\* line 88 with the test inverted
isdir_inverted(t) ==
  /\ pc[t] = "isdir"
  /\ Goto(t, IF dir_exists THEN "makedirs" ELSE "global_step",
          [local[t] EXCEPT !.isdir = dir_exists, !.oplog = Log(t, "isdir")])
  /\ UNCHANGED <<singleton_vars, hook_fields, summary_writer, hook_env,
                 threads, hook_calls>>

\* line 88: if not tf.io.gfile.isdir(self._output_dir)
isdir(t) ==
  /\ pc[t] = "isdir"
  /\ Goto(t, IF ~dir_exists THEN "makedirs" ELSE "global_step",
          [local[t] EXCEPT !.isdir = dir_exists, !.oplog = Log(t, "isdir")])
  /\ UNCHANGED <<singleton_vars, hook_fields, summary_writer, hook_env,
                 threads, hook_calls>>

\* line 89: tf.io.gfile.makedirs(self._output_dir)
makedirs(t) ==
  /\ pc[t] = "makedirs"
  /\ dir_exists' = TRUE
  /\ Goto(t, "global_step", [local[t] EXCEPT !.oplog = Log(t, "makedirs")])
  /\ UNCHANGED <<singleton_vars, hook_fields, summary_writer,
                 operative_config, has_global_step, global_step, files,
                 writer_cache, writers_made, cache_gets, pending,
                 event_stream, threads, hook_calls>>

\* lines 90-94 without the test for a session
resolve_global_step_ignores_session(t) ==
  /\ pc[t] = "global_step"
  /\ Goto(t, "filename",
          [local[t] EXCEPT !.global_step_val =
             IF has_global_step THEN global_step ELSE 0])
  /\ UNCHANGED <<singleton_vars, hook_fields, summary_writer, hook_env,
                 threads, hook_calls>>

\* lines 90-94: the step is 0 unless a session was passed and the graph has
\* a global step, which the session then evaluates
resolve_global_step(t) ==
  /\ pc[t] = "global_step"
  /\ Goto(t, "filename",
          [local[t] EXCEPT !.global_step_val =
             IF local[t].session # NoSession /\ has_global_step
             THEN global_step ELSE 0])
  /\ UNCHANGED <<singleton_vars, hook_fields, summary_writer, hook_env,
                 threads, hook_calls>>

\* lines 95-99 without the test of include_step_in_filename
form_filename_always_step(t) ==
  /\ pc[t] = "filename"
  /\ LET filename == filename_with_step(base_name, local[t].global_step_val)
     IN Goto(t, "write", [local[t] EXCEPT
               !.filename = filename,
               !.config_path = path_join(output_dir, filename)])
  /\ UNCHANGED <<singleton_vars, hook_fields, summary_writer, hook_env,
                 threads, hook_calls>>

\* lines 95-99: the file name and the path
form_filename(t) ==
  /\ pc[t] = "filename"
  /\ LET filename ==
           IF include_step_in_filename
           THEN filename_with_step(base_name, local[t].global_step_val)
           ELSE filename_without_step(base_name)
     IN Goto(t, "write", [local[t] EXCEPT
               !.filename = filename,
               !.config_path = path_join(output_dir, filename)])
  /\ UNCHANGED <<singleton_vars, hook_fields, summary_writer, hook_env,
                 threads, hook_calls>>

\* lines 100-101 writing the configuration as it is at the time of the write
write_config_rereads(t) ==
  /\ pc[t] = "write"
  /\ IF dir_exists
     THEN /\ files' = (local[t].config_path :> operative_config) @@ files
          /\ Goto(t, "summarize", [local[t] EXCEPT !.oplog = Log(t, "write")])
     ELSE /\ files' = files
          /\ Goto(t, "idle", [local[t] EXCEPT !.raised = TRUE])
  /\ UNCHANGED <<singleton_vars, hook_fields, summary_writer,
                 operative_config, has_global_step, global_step, dir_exists,
                 writer_cache, writers_made, cache_gets, pending,
                 event_stream, threads, hook_calls>>

\* lines 100-101: the file is opened in mode 'w' and config_str written; the
\* open raises when the directory does not exist
write_config(t) ==
  /\ pc[t] = "write"
  /\ IF dir_exists
     THEN /\ files' = (local[t].config_path :> local[t].config_str) @@ files
          /\ Goto(t, "summarize", [local[t] EXCEPT !.oplog = Log(t, "write")])
     ELSE /\ files' = files
          /\ Goto(t, "idle", [local[t] EXCEPT !.raised = TRUE])
  /\ UNCHANGED <<singleton_vars, hook_fields, summary_writer,
                 operative_config, has_global_step, global_step, dir_exists,
                 writer_cache, writers_made, cache_gets, pending,
                 event_stream, threads, hook_calls>>

\* lines 103-113 without the test of summarize_config
build_summary_always(t) ==
  /\ pc[t] = "summarize"
  /\ Goto(t, "check_writer", [local[t] EXCEPT !.summary =
            [tag |-> <<"gin/">> \o base_name,
             payload |-> markdown(local[t].config_str)]])
  /\ UNCHANGED <<singleton_vars, hook_fields, summary_writer, hook_env,
                 threads, hook_calls>>

\* lines 103-113: without summarize_config the call returns; with it the
\* summary record is built
build_summary(t) ==
  /\ pc[t] = "summarize"
  /\ IF summarize_config
     THEN Goto(t, "check_writer", [local[t] EXCEPT !.summary =
                 [tag |-> <<"gin/">> \o base_name,
                  payload |-> markdown(local[t].config_str)]])
     ELSE Goto(t, "idle", local[t])
  /\ UNCHANGED <<singleton_vars, hook_fields, summary_writer, hook_env,
                 threads, hook_calls>>

\* line 114 without the test for a writer already there
check_writer_always_get(t) ==
  /\ pc[t] = "check_writer"
  /\ Goto(t, "get_writer", local[t])
  /\ UNCHANGED <<singleton_vars, hook_fields, summary_writer, hook_env,
                 threads, hook_calls>>

\* line 114: if not self._summary_writer
check_writer(t) ==
  /\ pc[t] = "check_writer"
  /\ Goto(t, IF summary_writer = NoWriter THEN "get_writer" ELSE "add_summary",
          local[t])
  /\ UNCHANGED <<singleton_vars, hook_fields, summary_writer, hook_env,
                 threads, hook_calls>>

\* lines 118-119 creating a FileWriter for the directory, past the cache
get_writer_uncached(t) ==
  /\ pc[t] = "get_writer"
  /\ writer_cache' = writer_cache
  /\ writers_made' = writers_made + 1
  /\ cache_gets' = cache_gets + 1
  /\ Goto(t, "set_writer",
          [local[t] EXCEPT !.writer = CachedWriter + writers_made + 1,
                           !.oplog = Log(t, "get")])
  /\ UNCHANGED <<singleton_vars, hook_fields, summary_writer,
                 operative_config, has_global_step, global_step, dir_exists,
                 files, pending, event_stream, threads, hook_calls>>

\* lines 118-119, right-hand side: FileWriterCache.get(self._output_dir)
get_writer(t) ==
  /\ pc[t] = "get_writer"
  /\ LET r == FileWriterCache_get(output_dir)
     IN /\ writer_cache' = r.cache
        /\ writers_made' = writers_made + r.made
        /\ cache_gets' = cache_gets + 1
        /\ Goto(t, "set_writer", [local[t] EXCEPT !.writer = r.writer,
                                                  !.oplog = Log(t, "get")])
  /\ UNCHANGED <<singleton_vars, hook_fields, summary_writer,
                 operative_config, has_global_step, global_step, dir_exists,
                 files, pending, event_stream, threads, hook_calls>>

\* line 118, assignment: self._summary_writer = <the writer obtained>
set_writer(t) ==
  /\ pc[t] = "set_writer"
  /\ summary_writer' = local[t].writer
  /\ Goto(t, "add_summary", local[t])
  /\ UNCHANGED <<singleton_vars, hook_fields, hook_env, threads, hook_calls>>

\* line 120 without the step argument
add_summary_without_step(t) ==
  /\ pc[t] = "add_summary"
  /\ pending' = Append(pending,
                  [writer |-> summary_writer, tag |-> local[t].summary.tag,
                   payload |-> local[t].summary.payload, step |-> 0])
  /\ Goto(t, "flush", [local[t] EXCEPT !.oplog = Log(t, "add_summary")])
  /\ UNCHANGED <<singleton_vars, hook_fields, summary_writer,
                 operative_config, has_global_step, global_step, dir_exists,
                 files, writer_cache, writers_made, cache_gets, event_stream,
                 threads, hook_calls>>

\* line 120: self._summary_writer.add_summary(summary, global_step_val)
add_summary(t) ==
  /\ pc[t] = "add_summary"
  /\ pending' = Append(pending,
                  [writer |-> summary_writer, tag |-> local[t].summary.tag,
                   payload |-> local[t].summary.payload,
                   step |-> local[t].global_step_val])
  /\ Goto(t, "flush", [local[t] EXCEPT !.oplog = Log(t, "add_summary")])
  /\ UNCHANGED <<singleton_vars, hook_fields, summary_writer,
                 operative_config, has_global_step, global_step, dir_exists,
                 files, writer_cache, writers_made, cache_gets, event_stream,
                 threads, hook_calls>>

\* line 121: self._summary_writer.flush(); the call returns
flush(t) ==
  /\ pc[t] = "flush"
  /\ LET Mine(r) == r.writer = summary_writer
         Others(r) == r.writer # summary_writer
     IN /\ event_stream' = event_stream \o SelectSeq(pending, Mine)
        /\ pending' = SelectSeq(pending, Others)
  /\ Goto(t, "idle", [local[t] EXCEPT !.oplog = Log(t, "flush")])
  /\ UNCHANGED <<singleton_vars, hook_fields, summary_writer,
                 operative_config, has_global_step, global_step, dir_exists,
                 files, writer_cache, writers_made, cache_gets, threads,
                 hook_calls>>

\* ------------------------------------------------ environment of the hook
\* line 87 reads it: the operative configuration grows as configurables run
operative_config_changes ==
  /\ \E i \in 1..(Len(ConfigTexts) - 1) :
       /\ operative_config = ConfigTexts[i]
       /\ operative_config' = ConfigTexts[i + 1]
  /\ UNCHANGED <<singleton_vars, hook_fields, summary_writer,
                 has_global_step, global_step, dir_exists, files,
                 writer_cache, writers_made, cache_gets, pending,
                 event_stream, threads, pc, local, hook_calls>>

\* line 94 reads it: training between two sessions advances the global step
train ==
  /\ AllIdle
  /\ has_global_step
  /\ global_step' \in {s \in StepValues : s > global_step}
  /\ UNCHANGED <<singleton_vars, hook_fields, summary_writer,
                 operative_config, has_global_step, dir_exists, files,
                 writer_cache, writers_made, cache_gets, pending,
                 event_stream, threads, pc, local, hook_calls>>

\* ------------------------------------------------------------ initial states
\* the paths a hook with these fields can write
HookPaths(dir, base) ==
  {path_join(dir, filename_without_step(base))} \cup
  {path_join(dir, filename_with_step(base, s)) : s \in StepValues}

\* __init__ (lines 79-83) with the given choices of summarize_config and
\* summary_writer, called by the threads T, in any environment
HookInit(T, summarize_choices, writer_choices) ==
  /\ output_dir = <<"/tmp/run1">>
  /\ base_name = <<"operative_config">>
  /\ summarize_config \in summarize_choices
  /\ ctor_summary_writer \in writer_choices
  /\ summary_writer = ctor_summary_writer
  /\ include_step_in_filename \in BOOLEAN
  /\ operative_config = ConfigTexts[1]
  /\ has_global_step \in BOOLEAN
  /\ global_step = 0
  /\ dir_exists \in BOOLEAN
  /\ files \in IF dir_exists
               THEN {[p \in {} |-> ""],
                     [p \in HookPaths(output_dir, base_name) |-> "stale"]}
               ELSE {[p \in {} |-> ""]}
  /\ writer_cache \in {[d \in {} |-> NoWriter],
                       [d \in {output_dir} |-> CachedWriter]}
  /\ writers_made = 0
  /\ cache_gets = 0
  /\ pending = <<>>
  /\ event_stream = <<>>
  /\ threads = T
  /\ pc = [t \in Threads |-> "idle"]
  /\ local = [t \in Threads |-> NoLocal]
  /\ hook_calls = 0

\* the hook as the host framework uses it: one caller
Init == SingletonInit /\ HookInit({"t1"}, BOOLEAN, {NoWriter, SuppliedWriter})

\* the hook called from two threads, built without a writer and summarizing
InitConc ==
  /\ SingletonInit
  /\ HookInit(Threads, {TRUE}, {NoWriter})
  /\ DOMAIN files = {}

\* the singleton helper alone, next to a hook built with its defaults
InitSingleton ==
  /\ SingletonInit
  /\ HookInit({"t1"}, {TRUE}, {NoWriter})
  /\ include_step_in_filename /\ ~has_global_step /\ ~dir_exists
  /\ DOMAIN writer_cache = {}

HookStep(t) ==
  \/ \E session \in Sessions : after_create_session(t, session)
  \/ isdir(t)
  \/ makedirs(t)
  \/ resolve_global_step(t)
  \/ form_filename(t)
  \/ write_config(t)
  \/ build_summary(t)
  \/ check_writer(t)
  \/ get_writer(t)
  \/ set_writer(t)
  \/ add_summary(t)
  \/ flush(t)

Next ==
  \/ \E t \in Threads : HookStep(t)
  \/ operative_config_changes
  \/ train

NextSingleton ==
  \/ \E constructor \in Constructors : singleton_per_graph(constructor)
  \/ \E scope \in Scopes : config_scope(scope)
  \/ \E graph \in Graphs : as_default(graph)

Spec == Init /\ [][Next]_vars
SpecConc == InitConc /\ [][Next]_vars
SpecSingleton == InitSingleton /\ [][NextSingleton]_vars

\* ================================================================ properties
\* position of the first op in a call's log, 0 when it is not there
Pos(log, op) ==
  IF \E i \in 1..Len(log) : log[i] = op
  THEN CHOOSE i \in 1..Len(log) : log[i] = op /\ \A j \in 1..(i - 1) : log[j] # op
  ELSE 0
Count(log, op) == Cardinality({i \in 1..Len(log) : log[i] = op})
Did(t, op) == Pos(local[t].oplog, op) > 0
\* the thread's last call has returned
Completed(t) == pc[t] = "idle" /\ local[t].oplog # <<>>
\* the decimal text of the step values, written out
StepText == (0 :> <<"0">>) @@ (5 :> <<"5">>) @@ (100 :> <<"1", "0", "0">>)
PathWithStep(step) ==
  output_dir \o <<"/">> \o base_name \o <<"-">> \o StepText[step] \o <<".gin">>
PathWithoutStep == output_dir \o <<"/">> \o base_name \o <<".gin">>
\* the step a call started with this session resolves, while it runs
ExpectedStep(t) ==
  IF local[t].session = NoSession \/ ~has_global_step THEN 0 ELSE global_step
Records == pending \o event_stream
WritersOf(records) == {records[i].writer : i \in 1..Len(records)}

\* C1: under every (scope, graph) pair where singleton_per_graph was called,
\* the constructor was invoked exactly once, on the first call, and every call
\* made there returned that one instance.
C1_ConstructedOncePerPair ==
  \A p \in Pairs :
    history[p].calls >= 1 =>
      /\ history[p].ctor = 1
      /\ Cardinality(history[p].results) = 1
      /\ Cardinality(history[p].keys) = 1

C1_Witness ==
  \E p \in Pairs :
    /\ history[p].calls >= 2
    /\ \E q \in Pairs : q # p /\ history[q].calls >= 1

\* C2: calls under one scope and two different default graphs use different
\* registry entries, each with its own constructor invocation and instance.
C2_GraphsDoNotShare ==
  \A scope \in Scopes : \A g1, g2 \in Graphs :
    (g1 # g2 /\ history[<<scope, g1>>].calls >= 1
             /\ history[<<scope, g2>>].calls >= 1) =>
      /\ history[<<scope, g1>>].keys \cap history[<<scope, g2>>].keys = {}
      /\ history[<<scope, g1>>].results \cap history[<<scope, g2>>].results = {}
      /\ history[<<scope, g1>>].ctor >= 1
      /\ history[<<scope, g2>>].ctor >= 1

C2_Witness ==
  \E scope \in Scopes :
    /\ history[<<scope, "g1">>].calls >= 1
    /\ history[<<scope, "g2">>].calls >= 2

\* C3: with include_step_in_filename, the call has just written the file
\* {base_name}-{step}.gin in output_dir, step being 0 without a session or
\* without a global step and the session's value of the global step otherwise.
C3_FilenameWithStep ==
  \A t \in threads :
    (include_step_in_filename /\ pc[t] = "summarize") =>
      /\ local[t].config_path = PathWithStep(ExpectedStep(t))
      /\ PathWithStep(ExpectedStep(t)) \in DOMAIN files
      /\ files[PathWithStep(ExpectedStep(t))] = local[t].config_str

C3_Witness ==
  \E t \in threads :
    /\ include_step_in_filename /\ pc[t] = "summarize"
    /\ local[t].session # NoSession /\ has_global_step /\ global_step = 100
    /\ local[t].config_path = PathWithStep(100)

\* C4: without include_step_in_filename, every call writes {base_name}.gin
\* in output_dir, whatever step it resolved.
C4_FilenameWithoutStep ==
  \A t \in threads :
    (~include_step_in_filename /\ pc[t] = "summarize") =>
      /\ local[t].config_path = PathWithoutStep
      /\ PathWithoutStep \in DOMAIN files
      /\ files[PathWithoutStep] = local[t].config_str

C4_Witness ==
  \E t \in threads :
    /\ ~include_step_in_filename /\ pc[t] = "summarize"
    /\ hook_calls = 2 /\ Len(event_stream) = 1
    /\ event_stream[1].step # local[t].global_step_val
    /\ local[t].config_path = PathWithoutStep

\* C5: from the write to the end of the call and after it, the file at the
\* call's path holds exactly the configuration text the call took when it
\* started, whatever was at that path before.
C5_FileHoldsConfigAtCallStart ==
  \A t \in threads :
    Did(t, "write") =>
      /\ local[t].config_path \in DOMAIN files
      /\ files[local[t].config_path] = local[t].config_str
      /\ local[t].config_str \in {ConfigTexts[i] : i \in 1..Len(ConfigTexts)}

C5_Witness ==
  \E t \in threads :
    /\ Completed(t) /\ Did(t, "write")
    /\ hook_calls = 2 /\ ~include_step_in_filename
    /\ \E p \in DOMAIN files : files[p] = "stale"
    /\ files[local[t].config_path] = ConfigTexts[2]
    /\ operative_config = ConfigTexts[2]

\* C6: without summarize_config no call ever consults the writer cache,
\* creates a writer or adds a summary record, the hook's writer stays the one
\* given to __init__, and every completed call has written its file.
C6_NoSummaryWithoutSummarize ==
  ~summarize_config =>
    /\ cache_gets = 0
    /\ writers_made = 0
    /\ Records = <<>>
    /\ summary_writer = ctor_summary_writer
    /\ \A t \in threads :
         /\ pc[t] \notin {"check_writer", "get_writer", "set_writer",
                          "add_summary", "flush"}
         /\ (pc[t] = "idle" /\ hook_calls >= 1) =>
              /\ Did(t, "write")
              /\ local[t].config_path \in DOMAIN files

C6_Witness ==
  /\ ~summarize_config
  /\ hook_calls = 2
  /\ ctor_summary_writer = NoWriter
  /\ \E t \in threads : Completed(t) /\ local[t].config_path \in DOMAIN files

\* C7: a call that finds no output directory creates it before it attempts
\* the write, a call that finds the directory creates none, and the write of
\* every call succeeds.
C7_DirectoryCreatedBeforeWrite ==
  \A t \in threads :
    /\ pc[t] = "makedirs" => ~dir_exists
    /\ pc[t] \in {"write", "summarize"} => dir_exists
    /\ pc[t] \notin {"idle", "isdir", "makedirs"} =>
         (Did(t, "makedirs") <=> ~local[t].isdir)
    /\ Did(t, "write") =>
         /\ Did(t, "makedirs") =>
              Pos(local[t].oplog, "makedirs") < Pos(local[t].oplog, "write")
         /\ local[t].config_path \in DOMAIN files
    /\ ~local[t].raised
    /\ (pc[t] = "idle" /\ hook_calls >= 1) => Did(t, "write")

C7_Witness ==
  \E t \in threads :
    /\ Completed(t)
    /\ ~local[t].isdir
    /\ Did(t, "makedirs") /\ Did(t, "write")
    /\ local[t].config_path \in DOMAIN files

\* C8: with summarize_config, a completed call has added exactly one record
\* tagged gin/{base_name} at the step used for its file name, after its file
\* write, and then flushed the writer; n completed calls leave n records.
C8_OneSummaryPerCall ==
  summarize_config =>
    \A t \in threads :
      /\ Len(Records) <= hook_calls
      /\ Completed(t) =>
           /\ pending = <<>>
           /\ Len(event_stream) = hook_calls
           /\ event_stream[Len(event_stream)].tag = <<"gin/">> \o base_name
           /\ event_stream[Len(event_stream)].step = local[t].global_step_val
           /\ local[t].config_path =
                IF include_step_in_filename
                THEN PathWithStep(event_stream[Len(event_stream)].step)
                ELSE PathWithoutStep
           /\ Count(local[t].oplog, "add_summary") = 1
           /\ Pos(local[t].oplog, "write") > 0
           /\ Pos(local[t].oplog, "write") < Pos(local[t].oplog, "add_summary")
           /\ Pos(local[t].oplog, "flush") = Pos(local[t].oplog, "add_summary") + 1
           /\ Pos(local[t].oplog, "flush") = Len(local[t].oplog)

C8_Witness ==
  /\ summarize_config
  /\ hook_calls = 2
  /\ \E t \in threads : Completed(t)
  /\ Len(event_stream) = 2
  /\ event_stream[1].step = 0
  /\ event_stream[2].step = 100

\* C9, in every state: with a writer given to __init__ the cache is never
\* consulted and that writer holds every record; without one the cache is
\* consulted once, in the first call, and the writer it gave is the hook's
\* writer and holds every record.
C9_WriterState ==
  summarize_config =>
    /\ ctor_summary_writer # NoWriter =>
         /\ cache_gets = 0
         /\ summary_writer = ctor_summary_writer
         /\ WritersOf(Records) \subseteq {ctor_summary_writer}
    /\ ctor_summary_writer = NoWriter =>
         /\ cache_gets <= 1
         /\ \A t \in threads :
              /\ cache_gets = IF hook_calls >= 2 \/ Did(t, "get") THEN 1 ELSE 0
              /\ hook_calls >= 2 => ~Did(t, "get")
         /\ summary_writer # NoWriter =>
              /\ output_dir \in DOMAIN writer_cache
              /\ summary_writer = writer_cache[output_dir]
         /\ WritersOf(Records) \subseteq {summary_writer} \ {NoWriter}

\* C9, in every step: once set, the hook's writer never changes.
C9_WriterStep == summary_writer # NoWriter => summary_writer' = summary_writer

\* C9: over any sequence of calls with summarize_config, a writer given to
\* __init__ receives every record and the cache is never consulted; otherwise
\* the cache is consulted in the first call only and the writer obtained then
\* receives every record; the hook's writer, once set, never changes.
C9_WriterObtainedOnce == []C9_WriterState /\ [][C9_WriterStep]_vars

C9_Witness ==
  /\ summarize_config
  /\ ctor_summary_writer = NoWriter
  /\ hook_calls = 2
  /\ \E t \in threads : Completed(t)
  /\ cache_gets = 1
  /\ Len(event_stream) = 2
  /\ WritersOf(event_stream) = {summary_writer}

\* both threads passed the check of line 114 and each obtained a writer
BothObtained == \A t \in Threads : Did(t, "get") /\ pc[t] # "get_writer"

\* C10, as stated: when two concurrent calls both pass the check for a
\* missing writer and each obtains a writer, the two writers are distinct
\* instances.
C10_RaceMakesTwoWriters ==
  BothObtained =>
    \E t1, t2 \in Threads : local[t1].writer # local[t2].writer

\* C10, amended: two concurrent calls can both pass the check for a missing
\* writer and both ask the cache, but the cache answers both with the one
\* writer it keeps for output_dir: at most one writer is created and every
\* record goes to that writer.
C10_RaceSharesOneWriter ==
  /\ writers_made <= 1
  /\ Cardinality(WritersOf(Records) \cup ({summary_writer} \ {NoWriter})) <= 1
  /\ \A t1, t2 \in Threads :
       (Did(t1, "get") /\ Did(t2, "get")) => local[t1].writer = local[t2].writer
  /\ \A t \in Threads :
       Did(t, "get") =>
         /\ output_dir \in DOMAIN writer_cache
         /\ local[t].writer = writer_cache[output_dir]

C10_Witness ==
  /\ BothObtained
  /\ cache_gets = 2
  /\ writers_made = 1
  /\ \A t \in Threads : Completed(t)
  /\ Len(event_stream) = 2

====
